---- MODULE Spec2Model ----
(***************************************************************************)
(* State machine of src/src/App.tsx: the App component's state, its two    *)
(* effects (load / save favorites), the generateIdeas async call and the   *)
(* click / key handlers.                                                   *)
(*                                                                         *)
(* JavaScript values are tagged records, so that every value a JSON.parse  *)
(* can hand to setIdeas / setFavorites has a place in the model:           *)
(*   Undef, Str(s), Obj(name, slogan), Arr(items).                         *)
(* A JSON text is a sequence of tokens (punctuation, string literals,      *)
(* whitespace, junk); Stringify and Parse work on tokens.  The JSON        *)
(* fragment is: strings, arrays of values, objects whose members are the   *)
(* string-valued keys "name" and "slogan" (key order is not kept).         *)
(* string | null and number | null are modelled as sequences of length     *)
(* at most one: None is null, Some(x) is x.                                *)
(***************************************************************************)
EXTENDS Integers, Sequences, FiniteSets, TLC

VARIABLES
  industry,        \* useState('') App.tsx:18, a sequence of characters
  ideas,           \* useState<StartupIdea[]>([]) App.tsx:21
  favorites,       \* useState<StartupIdea[]>([]) App.tsx:22
  loading,         \* App.tsx:23
  error,           \* App.tsx:24
  copiedIndex,     \* App.tsx:25
  view,            \* App.tsx:26
  storage,         \* localStorage value under 'startup-favorites'
  inflight,        \* generateContent calls awaited at App.tsx:77, in issue order
  timers,          \* pending setTimeout callbacks of handleCopy, App.tsx:115
  queued,          \* the setFavorites update queued by the load effect
  phase,           \* "init", "hydrating", "ready" or "crashed" (tree unmounted)
  boot,            \* history: the stored value when the page was first opened
  newest,          \* history: what the latest-issued call to succeed so far returned
  last             \* history: the last event handled, and what it read

vars == <<industry, ideas, favorites, loading, error, copiedIndex, view,
          storage, inflight, timers, queued, phase, boot, newest, last>>

appState == <<industry, ideas, favorites, loading, error, copiedIndex, view,
              storage, inflight, timers, queued, phase>>

----------------------------------------------------------------------------
(* Bounds *)

MaxInFlight == 2
MaxTimers == 1

----------------------------------------------------------------------------
(* null | x *)

None == <<>>
Some(x) == <<x>>

----------------------------------------------------------------------------
(* JavaScript values *)

Undef == [t |-> "undef"]
Str(s) == [t |-> "str", v |-> s]
Obj(n, s) == [t |-> "obj", name |-> n, slogan |-> s]
Arr(xs) == [t |-> "arr", items |-> xs]

StartupIdea(n, s) == Obj(Str(n), Str(s))

IsArray(v) == v.t = "arr"

\* v.name: undefined on anything that is not an object with that member
NameOf(v) == IF v.t = "obj" THEN v.name ELSE Undef

----------------------------------------------------------------------------
(* JSON texts *)

P(c) == [k |-> "punct", v |-> c]
S(s) == [k |-> "string", v |-> s]
WS == [k |-> "ws", v |-> " "]
Junk == [k |-> "junk", v |-> "not json"]

RECURSIVE TrimStart(_, _)
TrimStart(s, ws) ==
  IF s # <<>> /\ Head(s) \in ws THEN TrimStart(Tail(s), ws) ELSE s

RECURSIVE TrimEnd(_, _)
TrimEnd(s, ws) ==
  IF s # <<>> /\ s[Len(s)] \in ws THEN TrimEnd(SubSeq(s, 1, Len(s) - 1), ws) ELSE s

\* String.prototype.trim, on a sequence whose whitespace elements are ws
Trim(s, ws) == TrimEnd(TrimStart(s, ws), ws)

RECURSIVE StringifyItems(_, _)
RECURSIVE Stringify(_)

\* the members of an object; JSON.stringify leaves undefined members out
StringifyMembers(o) ==
  LET n == IF o.name = Undef THEN <<>> ELSE <<S("name"), P(":")>> \o Stringify(o.name)
      s == IF o.slogan = Undef THEN <<>> ELSE <<S("slogan"), P(":")>> \o Stringify(o.slogan)
  IN  IF n # <<>> /\ s # <<>> THEN n \o <<P(",")>> \o s ELSE n \o s

StringifyItems(xs, i) ==
  IF i > Len(xs) THEN <<>>
  ELSE (IF i > 1 THEN <<P(",")>> ELSE <<>>) \o Stringify(xs[i]) \o StringifyItems(xs, i + 1)

\* JSON.stringify
Stringify(v) ==
  CASE v.t = "str" -> <<S(v.v)>>
    [] v.t = "obj" -> <<P("{")>> \o StringifyMembers(v) \o <<P("}")>>
    [] v.t = "arr" -> <<P("[")>> \o StringifyItems(v.items, 1) \o <<P("]")>>
    [] OTHER -> <<>>

Fail == [ok |-> FALSE, val |-> Undef, next |-> 0]
Ok(v, n) == [ok |-> TRUE, val |-> v, next |-> n]

Is(t, i, tok) == i <= Len(t) /\ t[i] = tok
IsString(t, i) == i <= Len(t) /\ t[i].k = "string"

RECURSIVE ParseValue(_, _)
RECURSIVE ParseElements(_, _, _)
RECURSIVE ParseMembers(_, _, _, _)

\* the elements of an array after "[" or ",", up to the closing "]"
ParseElements(t, i, acc) ==
  LET r == ParseValue(t, i) IN
  IF ~r.ok THEN Fail
  ELSE IF Is(t, r.next, P(",")) THEN ParseElements(t, r.next + 1, Append(acc, r.val))
  ELSE IF Is(t, r.next, P("]")) THEN Ok(Arr(Append(acc, r.val)), r.next + 1)
  ELSE Fail

\* the members of an object after "{" or ",", up to the closing "}"
ParseMembers(t, i, n, s) ==
  IF ~(IsString(t, i) /\ Is(t, i + 1, P(":")) /\ IsString(t, i + 2)) THEN Fail
  ELSE LET key == t[i].v
           n2 == IF key = "name" THEN Str(t[i + 2].v) ELSE n
           s2 == IF key = "slogan" THEN Str(t[i + 2].v) ELSE s
       IN  IF Is(t, i + 3, P(",")) THEN ParseMembers(t, i + 4, n2, s2)
           ELSE IF Is(t, i + 3, P("}")) THEN Ok(Obj(n2, s2), i + 4)
           ELSE Fail

ParseValue(t, i) ==
  IF IsString(t, i) THEN Ok(Str(t[i].v), i + 1)
  ELSE IF Is(t, i, P("[")) THEN
    IF Is(t, i + 1, P("]")) THEN Ok(Arr(<<>>), i + 2) ELSE ParseElements(t, i + 1, <<>>)
  ELSE IF Is(t, i, P("{")) THEN
    IF Is(t, i + 1, P("}")) THEN Ok(Obj(Undef, Undef), i + 2)
    ELSE ParseMembers(t, i + 1, Undef, Undef)
  ELSE Fail

\* JSON.parse: ok = FALSE is the SyntaxError it throws
Parse(text) ==
  LET t == SelectSeq(text, LAMBDA tok : tok.k # "ws")
      r == ParseValue(t, 1)
  IN  IF r.ok /\ r.next = Len(t) + 1 THEN [ok |-> TRUE, val |-> r.val]
      ELSE [ok |-> FALSE, val |-> Undef]

----------------------------------------------------------------------------
(* Inputs *)

\* what the user types into the industry field
IndustryInputs == {<<>>, <<" ">>, <<" ", "a", " ">>}

A1 == StartupIdea("A", "s1")
A2 == StartupIdea("A", "s2")
B1 == StartupIdea("B", "s1")

\* the structured arrays the service answers with
ServiceValues == {Arr(<<A1, B1>>), Arr(<<A2, A1>>)}

\* response.text: a serialized array (bare or padded with whitespace), a JSON
\* object, a truncated text, whitespace only
ResponseTexts ==
  {Stringify(Arr(<<A1, B1>>)),
   <<WS>> \o Stringify(Arr(<<A2, A1>>)) \o <<WS>>,
   <<P("{"), P("}")>>,
   <<P("["), P("{"), Junk>>,
   <<WS>>}

\* how an awaited generateContent call ends: it rejects, or it resolves
\* with a response whose text is undefined (None) or a string
Outcomes ==
  {[rejected |-> TRUE, text |-> None]} \cup
  {[rejected |-> FALSE, text |-> x] : x \in {None} \cup {Some(t) : t \in ResponseTexts}}

\* what the browser may hold under 'startup-favorites' when the page is first
\* opened: nothing, a corrupted string, a list with a repeated name, an object
StoredInputs ==
  {None,
   Some(<<P("{"), Junk>>),
   Some(Stringify(Arr(<<A1, A2>>))),
   Some(<<P("{"), P("}")>>)}

GenerateErrorMessage == "An error occurred while generating ideas. Please try again."

\* localStorage.setItem returns (TRUE) or throws, e.g. QuotaExceededError (FALSE)
SetItemOutcomes == {TRUE, FALSE}

----------------------------------------------------------------------------
(* History records *)

Ev(op) ==
  [op |-> op, wok |-> TRUE, rejected |-> FALSE, text |-> None, idea |-> None,
   before |-> None, streak |-> 0, wrote |-> <<>>, stored |-> None,
   head |-> FALSE]

----------------------------------------------------------------------------
(* The component *)

\* variant: the emptiness test without the trim
IndustryIsEmptyNoTrim(ind) == ind = <<>>

\* !industry.trim()
IndustryIsEmpty(ind) == Trim(ind, {" "}) = <<>>

\* disabled={loading || !industry.trim()}
GenerateDisabled == loading \/ IndustryIsEmpty(industry)

\* favorites.some(f => f.name === name)
IsFavoriteIn(favs, name) == \E i \in 1..Len(favs.items) : NameOf(favs.items[i]) = name

IsFavorite(name) == IsFavoriteIn(favorites, name)

\* variant: the updater without the exists test
ToggleUpdaterNoCheck(prev, idea) == Arr(Append(prev.items, idea))

\* variant: the updater adding at the front
ToggleUpdaterPrepend(prev, idea) ==
  LET exists == \E i \in 1..Len(prev.items) : NameOf(prev.items[i]) = NameOf(idea) IN
  IF exists
  THEN Arr(SelectSeq(prev.items, LAMBDA f : NameOf(f) # NameOf(idea)))
  ELSE Arr(<<idea>> \o prev.items)

\* variant: the updater comparing whole ideas instead of names
ToggleUpdaterByValue(prev, idea) ==
  LET exists == \E i \in 1..Len(prev.items) : prev.items[i] = idea IN
  IF exists
  THEN Arr(SelectSeq(prev.items, LAMBDA f : f # idea))
  ELSE Arr(Append(prev.items, idea))

\* variant: the updater removing the first match only
ToggleUpdaterRemoveFirst(prev, idea) ==
  LET hits == {i \in 1..Len(prev.items) : NameOf(prev.items[i]) = NameOf(idea)} IN
  IF hits # {}
  THEN LET k == CHOOSE i \in hits : \A j \in hits : i <= j IN
       Arr(SubSeq(prev.items, 1, k - 1) \o SubSeq(prev.items, k + 1, Len(prev.items)))
  ELSE Arr(Append(prev.items, idea))

\* the updater toggleFavorite hands to setFavorites
ToggleUpdater(prev, idea) ==
  LET exists == \E i \in 1..Len(prev.items) : NameOf(prev.items[i]) = NameOf(idea) IN
  IF exists
  THEN Arr(SelectSeq(prev.items, LAMBDA f : NameOf(f) # NameOf(idea)))
  ELSE Arr(Append(prev.items, idea))

\* variant: the load effect without its try / catch
LoadEffectNoCatch(savedItem) ==
  IF savedItem # None /\ savedItem[1] # <<>>
  THEN LET r == Parse(savedItem[1]) IN
       IF r.ok THEN [set |-> Some(r.val), threw |-> FALSE]
       ELSE [set |-> None, threw |-> TRUE]
  ELSE [set |-> None, threw |-> FALSE]

\* the load effect: the value it hands to setFavorites, if any, and whether
\* an exception leaves the effect
LoadEffect(savedItem) ==
  IF savedItem # None /\ savedItem[1] # <<>>
  THEN LET r == Parse(savedItem[1]) IN
       IF r.ok THEN [set |-> Some(r.val), threw |-> FALSE]
       ELSE [set |-> None, threw |-> FALSE]
  ELSE [set |-> None, threw |-> FALSE]

\* the save effect: the value it hands to localStorage.setItem
SaveEffect(favs) == Some(Stringify(favs))

\* variant: the try block with the parse failure caught and dropped
TryBlockSwallowsParse(o) ==
  IF o.rejected THEN [threw |-> TRUE, ideas |-> None]
  ELSE LET jsonStr == IF o.text = None THEN None ELSE Some(Trim(o.text[1], {WS})) IN
       IF jsonStr # None /\ jsonStr[1] # <<>>
       THEN LET r == Parse(jsonStr[1]) IN
            IF r.ok THEN [threw |-> FALSE, ideas |-> Some(r.val)]
            ELSE [threw |-> FALSE, ideas |-> None]
       ELSE [threw |-> TRUE, ideas |-> None]

\* the try block of generateIdeas after the await: the value handed to
\* setIdeas, if any, and whether control reaches the catch block
TryBlock(o) ==
  IF o.rejected THEN [threw |-> TRUE, ideas |-> None]
  ELSE LET jsonStr == IF o.text = None THEN None ELSE Some(Trim(o.text[1], {WS})) IN
       IF jsonStr # None /\ jsonStr[1] # <<>>
       THEN LET r == Parse(jsonStr[1]) IN
            IF r.ok THEN [threw |-> FALSE, ideas |-> Some(r.val)]
            ELSE [threw |-> TRUE, ideas |-> None]
       ELSE [threw |-> TRUE, ideas |-> None]

\* variant: the new ideas added after the ones on screen
SetIdeasAppend(old, r) ==
  IF r.ideas # None /\ IsArray(r.ideas[1]) /\ IsArray(old)
  THEN Arr(old.items \o r.ideas[1].items)
  ELSE IF r.ideas # None THEN r.ideas[1] ELSE old

\* variant: the ideas on screen cleared when the try block throws
SetIdeasClearsOnFailure(old, r) == IF r.ideas # None THEN r.ideas[1] ELSE Arr(<<>>)

\* setIdeas(parsedIdeas): the ideas after the try block
SetIdeas(old, r) == IF r.ideas # None THEN r.ideas[1] ELSE old

\* x.length > 0, for the values of the fragment (string literals are not empty)
LengthPositive(v) == (v.t = "arr" /\ Len(v.items) > 0) \/ v.t = "str"

\* whether rendering throws a TypeError: .map or .some of a value that is
\* not an array, .length of undefined
RenderThrows(i, f, v) ==
  \/ f = Undef
  \/ v = "generate" /\ (i = Undef \/ (LengthPositive(i) /\ (~IsArray(i) \/ ~IsArray(f))))
  \/ v = "favorites" /\ ~IsArray(f)

\* an uncaught error while rendering unmounts the tree
AfterRender(i, f, v) == IF RenderThrows(i, f, v) THEN "crashed" ELSE "ready"

\* the list on screen
Displayed == IF view = "generate" THEN ideas ELSE favorites

\* its items, each with a copy and a star button
Shown == IF IsArray(Displayed) THEN Displayed.items ELSE <<>>

----------------------------------------------------------------------------
(* Actions *)

Init ==
  /\ industry = <<>>
  /\ ideas = Arr(<<>>)
  /\ favorites = Arr(<<>>)
  /\ loading = FALSE
  /\ error = None
  /\ copiedIndex = None
  /\ view = "generate"
  /\ storage \in StoredInputs
  /\ inflight = <<>>
  /\ timers = 0
  /\ queued = None
  /\ phase = "init"
  /\ boot = storage
  /\ newest = None
  /\ last = Ev("init")

\* variant: the two effects in the opposite order
MountEffectsSaveFirst(wok) ==
  /\ phase = "init"
  /\ LET written == IF wok THEN SaveEffect(favorites) ELSE storage
         l == LoadEffect(written)
     IN
     /\ queued' = IF wok THEN l.set ELSE None
     /\ storage' = written
     /\ phase' = IF l.threw \/ ~wok THEN "crashed"
                 ELSE IF l.set # None THEN "hydrating" ELSE "ready"
     /\ last' = [Ev("mount") EXCEPT !.text = storage, !.wok = wok,
                                     !.wrote = SaveEffect(favorites)]
  /\ UNCHANGED <<industry, ideas, favorites, loading, error, copiedIndex, view,
                 inflight, timers, boot, newest>>

\* first commit: the load effect, then the save effect with favorites = []
MountEffects(wok) ==
  /\ phase = "init"
  /\ LET l == LoadEffect(storage) IN
     /\ queued' = l.set
     /\ storage' = IF ~l.threw /\ wok THEN SaveEffect(favorites) ELSE storage
     /\ phase' = IF l.threw \/ ~wok THEN "crashed"
                 ELSE IF l.set # None THEN "hydrating" ELSE "ready"
     /\ last' = [Ev("mount") EXCEPT
                   !.text = storage, !.wok = wok,
                   !.wrote = IF l.threw THEN <<>> ELSE SaveEffect(favorites)]
  /\ UNCHANGED <<industry, ideas, favorites, loading, error, copiedIndex, view,
                 inflight, timers, boot, newest>>

\* the re-render the load effect's setFavorites causes, then the save effect
HydrateCommit(wok) ==
  /\ phase = "hydrating"
  /\ favorites' = queued[1]
  /\ queued' = None
  /\ LET r == AfterRender(ideas, queued[1], view) IN
     /\ storage' = IF r = "ready" /\ wok THEN SaveEffect(queued[1]) ELSE storage
     /\ phase' = IF wok THEN r ELSE "crashed"
     /\ last' = [Ev("hydrate") EXCEPT
                   !.text = last.text, !.wok = wok,
                   !.wrote = IF r = "ready" THEN SaveEffect(queued[1]) ELSE <<>>]
  /\ UNCHANGED <<industry, ideas, loading, error, copiedIndex, view, inflight,
                 timers, boot, newest>>

\* the page is closed and opened again: state is rebuilt, the store is kept
Reload ==
  /\ phase \in {"ready", "crashed"}
  /\ industry' = <<>>
  /\ ideas' = Arr(<<>>)
  /\ favorites' = Arr(<<>>)
  /\ loading' = FALSE
  /\ error' = None
  /\ copiedIndex' = None
  /\ view' = "generate"
  /\ inflight' = <<>>
  /\ timers' = 0
  /\ queued' = None
  /\ phase' = "init"
  /\ newest' = None
  /\ last' = Ev("reload")
  /\ UNCHANGED <<storage, boot>>

\* onChange of the industry field
SetIndustry(v) ==
  /\ phase = "ready"
  /\ view = "generate"
  /\ industry' = v
  /\ last' = Ev("input")
  /\ UNCHANGED <<ideas, favorites, loading, error, copiedIndex, view, storage,
                 inflight, timers, queued, phase, boot, newest>>

\* the Generator / Favorites buttons
SetView(v) ==
  /\ phase = "ready"
  /\ view' = v
  /\ phase' = AfterRender(ideas, favorites, v)
  /\ last' = Ev("view")
  /\ UNCHANGED <<industry, ideas, favorites, loading, error, copiedIndex, storage,
                 inflight, timers, queued, boot, newest>>

\* generateIdeas up to its await
GenerateIdeas ==
  IF IndustryIsEmpty(industry)
  THEN UNCHANGED <<loading, error, copiedIndex, view, inflight, phase>>
  ELSE /\ Len(inflight) < MaxInFlight
       /\ loading' = TRUE
       /\ error' = None
       /\ copiedIndex' = None
       /\ view' = "generate"
       /\ inflight' = Append(inflight, [industry |-> industry, superseded |-> FALSE])
       /\ phase' = AfterRender(ideas, favorites, "generate")

\* onClick of the generate button
ClickGenerate ==
  /\ phase = "ready"
  /\ view = "generate"
  /\ ~GenerateDisabled
  /\ GenerateIdeas
  /\ last' = Ev("click")
  /\ UNCHANGED <<industry, ideas, favorites, storage, timers, queued, boot, newest>>

\* onKeyDown of the industry and keywords fields: e.key === 'Enter'
KeyDownEnter(field) ==
  /\ phase = "ready"
  /\ view = "generate"
  /\ field \in {"industry", "keywords"}
  /\ GenerateIdeas
  /\ last' = Ev("enter")
  /\ UNCHANGED <<industry, ideas, favorites, storage, timers, queued, boot, newest>>

\* the calls still awaited once call i has resumed; history: when call i
\* brought ideas, the calls issued before it are marked superseded
Outstanding(i, succeeded) ==
  (IF i = 1 THEN <<>>
   ELSE [j \in 1..(i - 1) |-> [inflight[j] EXCEPT !.superseded = @ \/ succeeded]])
  \o SubSeq(inflight, i + 1, Len(inflight))

\* history: the result of the latest-issued call among those that have
\* brought ideas so far, r being the try block's outcome for call i
Newest(i, r) ==
  IF r.ideas # None /\ ~inflight[i].superseded THEN r.ideas ELSE newest

\* variant: the favorites dropped when new ideas arrive
CallCompleteResetsFavorites(i, o) ==
  /\ phase = "ready"
  /\ i \in 1..Len(inflight)
  /\ LET r == TryBlock(o)
         newIdeas == SetIdeas(ideas, r)
         newFavorites == IF r.ideas # None THEN Arr(<<>>) ELSE favorites
     IN
     /\ ideas' = newIdeas
     /\ favorites' = newFavorites
     /\ error' = IF r.threw THEN Some(GenerateErrorMessage) ELSE error
     /\ loading' = FALSE
     /\ phase' = AfterRender(newIdeas, newFavorites, view)
  /\ inflight' = Outstanding(i, TryBlock(o).ideas # None)
  /\ newest' = Newest(i, TryBlock(o))
  /\ last' = [Ev("complete") EXCEPT !.rejected = o.rejected, !.text = o.text,
                                   !.head = (i = 1)]
  /\ UNCHANGED <<industry, copiedIndex, view, storage, timers, queued, boot>>

\* variant: setLoading(false) as the last statement of the try block
CallCompleteNoFinally(i, o) ==
  /\ phase = "ready"
  /\ i \in 1..Len(inflight)
  /\ LET r == TryBlock(o)
         newIdeas == SetIdeas(ideas, r)
     IN
     /\ ideas' = newIdeas
     /\ error' = IF r.threw THEN Some(GenerateErrorMessage) ELSE error
     /\ loading' = IF r.threw THEN loading ELSE FALSE
     /\ phase' = AfterRender(newIdeas, favorites, view)
  /\ inflight' = Outstanding(i, TryBlock(o).ideas # None)
  /\ newest' = Newest(i, TryBlock(o))
  /\ last' = [Ev("complete") EXCEPT !.rejected = o.rejected, !.text = o.text,
                                   !.head = (i = 1)]
  /\ UNCHANGED <<industry, favorites, copiedIndex, view, storage, timers, queued, boot>>

\* the awaited call i ends with outcome o: the rest of generateIdeas
CallComplete(i, o) ==
  /\ phase = "ready"
  /\ i \in 1..Len(inflight)
  /\ LET r == TryBlock(o)
         newIdeas == SetIdeas(ideas, r)
     IN
     /\ ideas' = newIdeas
     /\ error' = IF r.threw THEN Some(GenerateErrorMessage) ELSE error
     /\ loading' = FALSE
     /\ phase' = AfterRender(newIdeas, favorites, view)
  /\ inflight' = Outstanding(i, TryBlock(o).ideas # None)
  /\ newest' = Newest(i, TryBlock(o))
  /\ last' = [Ev("complete") EXCEPT !.rejected = o.rejected, !.text = o.text,
                                   !.head = (i = 1)]
  /\ UNCHANGED <<industry, favorites, copiedIndex, view, storage, timers, queued, boot>>

\* variant: the write made by the click handler, from the list it closed over
ToggleFavoriteWriteFirst(idx, wok) ==
  /\ phase = "ready"
  /\ idx \in 1..Len(Shown)
  /\ LET idea == Shown[idx]
         next == ToggleUpdater(favorites, idea)
         r == AfterRender(ideas, next, view)
     IN
     /\ favorites' = next
     /\ storage' = IF wok THEN SaveEffect(favorites) ELSE storage
     /\ phase' = IF wok THEN r ELSE "crashed"
     /\ last' = [Ev("toggle") EXCEPT
                   !.idea = Some(idea), !.wok = wok, !.before = Some(favorites),
                   !.stored = storage,
                   !.wrote = SaveEffect(favorites),
                   !.streak = IF last.op = "toggle" /\ last.idea = Some(idea)
                                 /\ last.streak = 1
                              THEN 2 ELSE 1]
  /\ UNCHANGED <<industry, ideas, loading, error, copiedIndex, view, inflight,
                 timers, queued, boot, newest>>

\* onClick of the star of item idx, then the save effect
ToggleFavorite(idx, wok) ==
  /\ phase = "ready"
  /\ idx \in 1..Len(Shown)
  /\ LET idea == Shown[idx]
         next == ToggleUpdater(favorites, idea)
         r == AfterRender(ideas, next, view)
     IN
     /\ favorites' = next
     /\ storage' = IF r = "ready" /\ wok THEN SaveEffect(next) ELSE storage
     /\ phase' = IF wok THEN r ELSE "crashed"
     /\ last' = [Ev("toggle") EXCEPT
                   !.idea = Some(idea), !.wok = wok, !.before = Some(favorites),
                   !.stored = storage,
                   !.wrote = IF r = "ready" THEN SaveEffect(next) ELSE <<>>,
                   !.streak = IF last.op = "toggle" /\ last.idea = Some(idea)
                                 /\ last.streak = 1
                              THEN 2 ELSE 1]
  /\ UNCHANGED <<industry, ideas, loading, error, copiedIndex, view, inflight,
                 timers, queued, boot, newest>>

\* onClick of the copy button of item idx
HandleCopy(idx) ==
  /\ phase = "ready"
  /\ idx \in 1..Len(Shown)
  /\ timers < MaxTimers
  /\ copiedIndex' = Some(idx - 1)
  /\ timers' = timers + 1
  /\ last' = Ev("copy")
  /\ UNCHANGED <<industry, ideas, favorites, loading, error, view, storage,
                 inflight, queued, phase, boot, newest>>

\* the setTimeout callback of handleCopy
CopyTimeout ==
  /\ phase = "ready"
  /\ timers > 0
  /\ copiedIndex' = None
  /\ timers' = timers - 1
  /\ last' = Ev("timer")
  /\ UNCHANGED <<industry, ideas, favorites, loading, error, view, storage,
                 inflight, queued, phase, boot, newest>>

Next ==
  \/ \E wok \in SetItemOutcomes : MountEffects(wok)
  \/ \E wok \in SetItemOutcomes : HydrateCommit(wok)
  \/ Reload
  \/ \E v \in IndustryInputs : SetIndustry(v)
  \/ \E v \in {"generate", "favorites"} : SetView(v)
  \/ ClickGenerate
  \/ \E field \in {"industry", "keywords"} : KeyDownEnter(field)
  \/ \E i \in 1..Len(inflight), o \in Outcomes : CallComplete(i, o)
  \/ \E idx \in 1..Len(Shown), wok \in SetItemOutcomes : ToggleFavorite(idx, wok)
  \/ \E idx \in 1..Len(Shown) : HandleCopy(idx)
  \/ CopyTimeout

Spec == Init /\ [][Next]_vars

----------------------------------------------------------------------------
(* Properties *)

\* a first visit: nothing stored under the key yet
LiveInit == Init /\ storage = None

\* the service settles every call: the promise awaited longest is always
\* eventually resolved or rejected
LiveSpec == LiveInit /\ [][Next]_vars /\ WF_vars(\E o \in Outcomes : CallComplete(1, o))

UniqueByName(v) ==
  \A i, j \in 1..Len(v.items) : i # j => NameOf(v.items[i]) # NameOf(v.items[j])

\* the stored value of the first startup is missing, unparseable, or a list
\* without a repeated name
BootUnique ==
  \/ boot = None
  \/ ~Parse(boot[1]).ok
  \/ IsArray(Parse(boot[1]).val) /\ UniqueByName(Parse(boot[1]).val)

\* every list of at most three of the ideas
FavoriteLists ==
  {Arr(xs) : xs \in UNION {[1..n -> {A1, A2, B1}] : n \in 0..3}}

NonBlank(ind) == \E k \in 1..Len(ind) : ind[k] # " "

\* C1 as stated: in every reachable state, whatever parseable list the
\* storage key held at startup, no two favorites have the same name.
C1_FavoritesUnique == IsArray(favorites) => UniqueByName(favorites)

\* C1 amended: when the stored value of the first startup is missing,
\* unparseable or a list without a repeated name, no two favorites have the
\* same name in any reachable state.
C1_FavoritesUniqueFromUniqueStore ==
  BootUnique /\ IsArray(favorites) => UniqueByName(favorites)

\* C1 witness: from a clean store, an idea was starred whose name was already
\* a favorite under another slogan.
C1_Witness ==
  /\ BootUnique
  /\ last.op = "toggle"
  /\ IsFavoriteIn(last.before[1], NameOf(last.idea[1]))
  /\ \A i \in 1..Len(last.before[1].items) : last.before[1].items[i] # last.idea[1]

\* the step is the second of two toggles of the same idea in a row, from a
\* list L = last.before[1] without a repeated name
SecondToggle ==
  /\ last.op = "toggle"
  /\ last'.op = "toggle"
  /\ last'.streak = 2
  /\ UniqueByName(last.before[1])

\* C2 as stated: toggling an idea twice in a row gives back the list L, in
\* contents and order, whether or not L had an entry of that name.
C2_ToggleTwiceRestores ==
  [][SecondToggle /\ last'.wok => favorites' = last.before[1]]_vars

\* C2 amended: toggling idea a twice in a row gives back L when L has no entry
\* named a.name; when L has one, the result is L without it and with a as the
\* last element.
C2_ToggleTwice ==
  [][SecondToggle =>
       LET L == last.before[1]
           a == last'.idea[1]
       IN  favorites' =
             IF \E i \in 1..Len(L.items) : NameOf(L.items[i]) = NameOf(a)
             THEN Arr(SelectSeq(L.items, LAMBDA f : NameOf(f) # NameOf(a)) \o <<a>>)
             ELSE L]_vars

\* C2 witness: an idea was toggled twice in a row, the second toggle removed
\* what the first had added to a list that held other entries.
C2_Witness ==
  /\ last.op = "toggle"
  /\ last.streak = 2
  /\ UniqueByName(favorites)
  /\ Len(favorites.items) > 0
  /\ ~IsFavorite(NameOf(last.idea[1]))
  /\ last.before[1].items = Append(favorites.items, last.idea[1])

\* C3: at most one generation call is outstanding at any moment.
C3_AtMostOneInFlight == Len(inflight) <= 1

\* C4: with an industry that is not blank, a click or an Enter key adds
\* exactly one call to the outstanding ones; a call that ends with the
\* serialization of a sequence, padded or not, leaves ideas equal to that
\* sequence.
C4_GenerateOnce ==
  [][/\ (last'.op \in {"click", "enter"} /\ NonBlank(industry)
           => /\ Len(inflight') = Len(inflight) + 1
              /\ SubSeq(inflight', 1, Len(inflight)) = inflight)
     /\ \A v \in ServiceValues :
          (/\ last'.op = "complete"
           /\ ~last'.rejected
           /\ last'.text # None
           /\ Trim(last'.text[1], {WS}) = Stringify(v))
          => ideas' = v]_vars

\* C4 witness: a call ended with the padded serialization of <<A2, A1>> while
\* other ideas were on screen, and ideas is now that sequence.
C4_Witness ==
  /\ last.op = "complete"
  /\ last.text = Some(<<WS>> \o Stringify(Arr(<<A2, A1>>)) \o <<WS>>)
  /\ ideas = Arr(<<A2, A1>>)
  /\ inflight # <<>>

\* C5: with a blank industry, a click or an Enter key leaves every variable
\* of the component, the outstanding calls and the stored value unchanged.
C5_BlankIsNoOp ==
  [][last'.op \in {"click", "enter"} /\ ~NonBlank(industry) => UNCHANGED appState]_vars

\* C5 witness: Enter was pressed with a whitespace-only industry.
C5_Witness ==
  /\ last.op = "enter"
  /\ industry = <<" ">>
  /\ inflight = <<>>
  /\ ~loading

\* C6: toggleFavorite of an idea flips isFavorite of its name.
C6_ToggleFlipsIsFavorite ==
  [][\A a \in {A1, A2, B1} :
       last'.op = "toggle" /\ last'.idea = Some(a)
       => IsFavorite(NameOf(a))' = ~IsFavorite(NameOf(a))]_vars

\* C6 witness: an idea was unstarred through an entry of the same name and
\* another slogan.
C6_Witness ==
  /\ last.op = "toggle"
  /\ ~IsFavorite(NameOf(last.idea[1]))
  /\ IsFavoriteIn(last.before[1], NameOf(last.idea[1]))
  /\ \A i \in 1..Len(last.before[1].items) : last.before[1].items[i] # last.idea[1]

\* C7: a startup that began with the stored serialization of a list L and has
\* settled has favorites = L and the serialization of L stored again.
C7_HydrateRoundTrip ==
  \A L \in FavoriteLists :
    (/\ phase = "ready"
     /\ last.op \in {"mount", "hydrate"}
     /\ last.text = Some(Stringify(L)))
    => (favorites = L /\ storage = Some(Stringify(L)))

\* C7 witness: a startup settled on the two favorites the program had stored.
C7_Witness ==
  /\ phase = "ready"
  /\ last.op = "hydrate"
  /\ favorites = Arr(<<A1, B1>>)
  /\ storage = Some(Stringify(Arr(<<A1, B1>>)))

\* the call ended in one of the three failure kinds
GenerationFailed ==
  /\ last.op = "complete"
  /\ \/ last.rejected
     \/ last.text = None
     \/ Trim(last.text[1], {WS}) = <<>>
     \/ ~Parse(last.text[1]).ok

\* C8: a call that is rejected, carries no text or carries text that does
\* not parse ends with the one error message set, loading cleared and the
\* component still mounted.
C8_FailuresSurface ==
  GenerationFailed =>
    (error = Some(GenerateErrorMessage) /\ ~loading /\ phase = "ready")

\* C8 witness: a call ended with a truncated text and the message is shown.
C8_Witness ==
  /\ last.op = "complete"
  /\ last.text = Some(<<P("["), P("{"), Junk>>)
  /\ error = Some(GenerateErrorMessage)

\* C9: a startup that finds the key missing or unparseable leaves favorites
\* empty, queues no update, sets no error message, and unmounts nothing
\* unless the save effect's write threw.
C9_BadStoreHydratesEmpty ==
  (last.op = "mount" /\ (last.text = None \/ ~Parse(last.text[1]).ok))
  => /\ favorites = Arr(<<>>)
     /\ queued = None
     /\ error = None
     /\ (phase = "ready" \/ ~last.wok)

\* C9 witness: a startup found a corrupted string and is ready with no
\* favorites.
C9_Witness ==
  /\ last.op = "mount"
  /\ last.text = Some(<<P("{"), Junk>>)
  /\ phase = "ready"
  /\ favorites = Arr(<<>>)

\* C10: a storage write that throws after a toggle is contained: favorites
\* keeps the toggled value and the component stays mounted, handling events.
C10_WriteFailureContained ==
  last.op = "toggle" /\ ~last.wok
  => /\ favorites = ToggleUpdater(last.before[1], last.idea[1])
     /\ phase # "crashed"


\* C11 as stated: a toggle whose write returns makes one write, of the
\* serialization of the new list, which is then the stored value; and the
\* second of two toggles of the same idea in a row stores the value that was
\* stored before the first.
C11_ToggleWritesAndRestores ==
  [][/\ (last'.op = "toggle" /\ last'.wok
           => /\ last'.wrote = <<Stringify(favorites')>>
              /\ storage' = Some(Stringify(favorites')))
     /\ (SecondToggle /\ last.wok /\ last'.wok => storage' = last.stored)]_vars

\* C11 amended: every toggle hands localStorage.setItem one value, the
\* serialization of the list after the mutation; when the call returns that is
\* the stored value, when it throws the stored value stays; in every ready
\* state the stored value is the serialization of favorites; the second of
\* two toggles of idea a in a row stores the value stored before the first
\* when the list L before the first had no entry named a.name, and otherwise
\* the serialization of L without that entry and with a as the last element.
C11_ToggleWrites ==
  [][/\ (last'.op = "toggle"
           => /\ last'.wrote = <<Stringify(favorites')>>
              /\ storage' = IF last'.wok THEN Some(Stringify(favorites')) ELSE storage)
     /\ (phase' = "ready" => storage' = Some(Stringify(favorites')))
     /\ (SecondToggle /\ last'.wok =>
           LET L == last.before[1]
               a == last'.idea[1]
           IN  IF \E i \in 1..Len(L.items) : NameOf(L.items[i]) = NameOf(a)
               THEN storage' = Some(Stringify(
                      Arr(SelectSeq(L.items, LAMBDA f : NameOf(f) # NameOf(a)) \o <<a>>)))
               ELSE storage' = last.stored)]_vars

\* C11 witness: the second of two toggles of the same idea wrote the value
\* that was stored before the first, a list with another entry.
C11_Witness ==
  /\ last.op = "toggle"
  /\ last.streak = 2
  /\ last.wok
  /\ last.wrote = storage
  /\ storage = Some(Stringify(favorites))
  /\ Len(favorites.items) > 0
  /\ last.stored = Some(Stringify(Arr(Append(favorites.items, last.idea[1]))))

\* C12: from startup on, no event other than a toggle hands a value to
\* localStorage.setItem or changes the stored value.
C12_HydrateReadOnly ==
  [][last'.op # "toggle" => last'.wrote = <<>> /\ storage' = storage]_vars


\* C13: no step of a generation call, its start by click or Enter or its
\* completion, changes favorites or the stored value.
C13_GenerationKeepsFavorites ==
  [][last'.op \in {"click", "enter", "complete"} => UNCHANGED <<favorites, storage>>]_vars

\* C13 witness: a call completed, with new ideas, while two favorites were
\* held and stored.
C13_Witness ==
  /\ last.op = "complete"
  /\ ideas = Arr(<<A2, A1>>)
  /\ favorites = Arr(<<A1, B1>>)
  /\ storage = Some(Stringify(favorites))

\* list xs without its first entry named n
RECURSIVE WithoutFirstNamed(_, _)
WithoutFirstNamed(xs, n) ==
  IF xs = <<>> THEN <<>>
  ELSE IF NameOf(Head(xs)) = n THEN Tail(xs)
  ELSE <<Head(xs)>> \o WithoutFirstNamed(Tail(xs), n)

\* C14 as stated: a toggle of an idea whose name is in L removes that one
\* entry and keeps the others in order; otherwise it appends the idea.
C14_ToggleRemovesOne ==
  [][last'.op = "toggle" =>
       LET L == favorites
           a == last'.idea[1]
       IN  favorites' =
             IF \E i \in 1..Len(L.items) : NameOf(L.items[i]) = NameOf(a)
             THEN Arr(WithoutFirstNamed(L.items, NameOf(a)))
             ELSE Arr(L.items \o <<a>>)]_vars

\* C14 amended: a toggle of an idea whose name is in L removes every entry of
\* that name (one, when L has no repeated name) and keeps the others in
\* order; otherwise it appends the idea as the last element.
C14_ToggleRemovesAllNamed ==
  [][last'.op = "toggle" =>
       LET L == favorites
           a == last'.idea[1]
           others == {i \in 1..Len(L.items) : NameOf(L.items[i]) # NameOf(a)}
       IN  IF others # 1..Len(L.items)
           THEN /\ Len(favorites'.items) = Cardinality(others)
                /\ \A i \in 1..Len(favorites'.items) :
                     favorites'.items[i] =
                       L.items[CHOOSE k \in others :
                                 Cardinality({j \in others : j <= k}) = i]
           ELSE /\ Len(favorites'.items) = Len(L.items) + 1
                /\ SubSeq(favorites'.items, 1, Len(L.items)) = L.items
                /\ favorites'.items[Len(L.items) + 1] = a]_vars

\* C14 witness: a toggle removed the first of two favorites and kept the other.
C14_Witness ==
  /\ last.op = "toggle"
  /\ Len(last.before[1].items) = 2
  /\ NameOf(last.before[1].items[1]) = NameOf(last.idea[1])
  /\ favorites = Arr(<<last.before[1].items[2]>>)

IsIdea(v) == v.t = "obj" /\ v.name.t = "str" /\ v.slogan.t = "str"

IsIdeaList(v) == IsArray(v) /\ \A i \in 1..Len(v.items) : IsIdea(v.items[i])

\* C15: in every reachable state ideas is a sequence of Idea records.
C15_IdeasWellShaped == IsIdeaList(ideas)

\* C16: loading is true exactly when a generation call is outstanding.
C16_LoadingIffOutstanding == loading <=> inflight # <<>>

\* the call ended with a text that parses to a list of ideas
GenerationSucceeded ==
  /\ last.op = "complete"
  /\ ~last.rejected
  /\ last.text # None
  /\ Trim(last.text[1], {WS}) # <<>>
  /\ Parse(last.text[1]).ok
  /\ IsIdeaList(Parse(last.text[1]).val)

\* C17: after a call has completed successfully the error message is null.
C17_SuccessClearsError == GenerationSucceeded => error = None

\* event e is a completion in one of the three failure kinds
FailedEvent(e) ==
  /\ e.op = "complete"
  /\ \/ e.rejected
     \/ e.text = None
     \/ Trim(e.text[1], {WS}) = <<>>
     \/ ~Parse(e.text[1]).ok

\* C18: neither the start of a call nor a completion in one of the three
\* failure kinds changes ideas, and between the two nothing changes ideas
\* but the completion of a call that did not fail or a reload of the page.
C18_FailureKeepsIdeas ==
  [][/\ (last'.op \in {"click", "enter"} \/ FailedEvent(last') => ideas' = ideas)
     /\ (ideas' # ideas => last'.op \in {"complete", "reload"} /\ ~FailedEvent(last'))]_vars

\* C18 witness: a call failed while two ideas were on screen.
C18_Witness ==
  /\ GenerationFailed
  /\ ideas = Arr(<<A1, B1>>)
  /\ error = Some(GenerateErrorMessage)


\* C19: once every issued call has completed, ideas is the result of the
\* most recently issued call among those that succeeded, whatever the order
\* of the responses; stated for results that are lists of ideas.
C19_NewestCallWins ==
  /\ inflight = <<>>
  /\ newest # None
  /\ IsIdeaList(newest[1])
  /\ IsIdeaList(ideas)
  => ideas = newest[1]


\* C20: provided the service settles every call, every completion clears
\* loading and either replaces ideas by the parsed payload or sets the error
\* message; while calls are outstanding the one awaited longest completes
\* again and again, so that every call completes; and loading never stays
\* true forever.
C20_CallsComplete ==
  /\ [][last'.op = "complete" =>
          /\ ~loading'
          /\ Len(inflight') = Len(inflight) - 1
          /\ IF FailedEvent(last')
             THEN error' = Some(GenerateErrorMessage)
             ELSE ideas' = Parse(last'.text[1]).val]_vars
  /\ []<>(phase # "ready" \/ inflight = <<>> \/ (last.op = "complete" /\ last.head))
  /\ (phase = "ready" /\ loading) ~> (phase # "ready" \/ ~loading)

\* C20 witness: a call completed with new ideas, loading cleared and no call
\* left outstanding.
C20_Witness ==
  /\ GenerationSucceeded
  /\ phase = "ready"
  /\ ~loading
  /\ inflight = <<>>
  /\ error = None
  /\ ideas = Parse(last.text[1]).val

====
